---- MODULE Spec2Model ----
(***************************************************************************)
(* Model of linkup-cli/install.py: the Linkup command-line installer.      *)
(* The script is one sequential process; its position is pc, and each      *)
(* function it calls (or each fallible statement of download_and_extract)  *)
(* is one action.  The environment (PATH lookups, uname, the GitHub API,   *)
(* the archive, failures of I/O and of subprocesses) is drawn from small   *)
(* sets at the point where the script reads it.                            *)
(***************************************************************************)
EXTENDS Integers, Sequences, FiniteSets, TLC

VARIABLES
    pc,              \* position of the script
    python_version,  \* sys.version_info: [major, minor]
    argv,            \* sys.argv[1:]
    which_linkup,    \* shutil.which("linkup") is not None, once looked up
    context,         \* Context.channel after parse_arguments, None before
    user_os,         \* OS member returned by detect_platform, None before
    user_arch,       \* Arch member returned by detect_platform, None before
    uname,           \* os.uname(): [sysname, machine], once read
    api_releases,    \* body of GET /releases, once fetched (a sequence)
    api_latest,      \* body of GET /releases/latest, once fetched (<<r>>)
    release,         \* the GithubRelease returned by get_release_data (<<r>>)
    download_url,    \* the URL picked from release.assets, None if none
    archive,         \* members of the downloaded tar archive
    tmp_tar,         \* local_tar_path.exists()
    tmp_bin,         \* local_temp_bin_path.exists()
    install_bin,     \* installation_bin_path: subset of {"present", "0755", "cap"}
    outside_written, \* a file was written outside the extraction directory
    raised,          \* exception propagating out of the try block, None if none
    unlink_failed,   \* which unlink() calls of the finally block raised
    requests,        \* network requests issued, in order
    sudo_calls,      \* elevated subprocesses started, in order
    local_calls,     \* in-process install operations performed, in order
    env,             \* environment variables read by setup_path: [PATH, SHELL]
    stdout,          \* lines printed, in order
    exit_status      \* <<>> while running, <<code>> once the process has exited

vars == <<pc, python_version, argv, which_linkup, context, user_os, user_arch,
          uname, api_releases, api_latest, release, download_url, archive,
          tmp_tar, tmp_bin, install_bin, outside_written, raised,
          unlink_failed, requests, sudo_calls, local_calls, env, stdout,
          exit_status>>

None == "None"

(***************************************************************************)
(* Bounds of the model.                                                    *)
(***************************************************************************)
MaxAssets == 2
MaxReleases == 3

(***************************************************************************)
(* String helpers (str.startswith, str.lower, str.split, os.path.basename) *)
(***************************************************************************)
StartsWith(s, p) == Len(s) >= Len(p) /\ SubSeq(s, 1, Len(p)) = p

EndsWith(s, p) == Len(s) >= Len(p) /\ SubSeq(s, Len(s) - Len(p) + 1, Len(s)) = p

UpperChars == "ABCDEFGHIJKLMNOPQRSTUVWXYZ"

LowerChars == "abcdefghijklmnopqrstuvwxyz"

LowerChar(c) ==
    IF \E i \in 1..26 : SubSeq(UpperChars, i, i) = c
    THEN LET i == CHOOSE j \in 1..26 : SubSeq(UpperChars, j, j) = c
         IN  SubSeq(LowerChars, i, i)
    ELSE c

RECURSIVE Lower(_)
Lower(s) ==
    IF Len(s) = 0 THEN ""
    ELSE LowerChar(SubSeq(s, 1, 1)) \o Lower(SubSeq(s, 2, Len(s)))

\* index of the first occurrence of character c in s, 0 if none
FirstIndex(s, c) ==
    IF \E i \in 1..Len(s) : SubSeq(s, i, i) = c
    THEN CHOOSE i \in 1..Len(s) :
            /\ SubSeq(s, i, i) = c
            /\ \A j \in 1..(i - 1) : SubSeq(s, j, j) # c
    ELSE 0

\* index of the last occurrence of character c in s, 0 if none
LastIndex(s, c) ==
    IF \E i \in 1..Len(s) : SubSeq(s, i, i) = c
    THEN CHOOSE i \in 1..Len(s) :
            /\ SubSeq(s, i, i) = c
            /\ \A j \in (i + 1)..Len(s) : SubSeq(s, j, j) # c
    ELSE 0

RECURSIVE Split(_, _)
Split(s, sep) ==
    LET i == FirstIndex(s, sep)
    IN  IF i = 0 THEN <<s>>
        ELSE <<SubSeq(s, 1, i - 1)>> \o Split(SubSeq(s, i + 1, Len(s)), sep)

basename(p) == SubSeq(p, LastIndex(p, "/") + 1, Len(p))

Range(f) == {f[i] : i \in DOMAIN f}

SeqsUpTo(S, n) == UNION {[1..k -> S] : k \in 0..n}

(***************************************************************************)
(* The enumerations: Shell, OS, Arch, Channel.                             *)
(***************************************************************************)
Home == "/home/u"

\* faulty variant: the comparison without value.lower()
Shell_from_str_case_sensitive(value) ==
    IF value \in {"bash", "zsh", "fish"} THEN value ELSE None

Shell_from_str(value) ==
    LET value_lower == Lower(value)
    IN  IF value_lower = "bash" THEN "bash"
        ELSE IF value_lower = "zsh" THEN "zsh"
        ELSE IF value_lower = "fish" THEN "fish"
        ELSE None

add_to_profile_command(shell, bin_path) ==
    IF shell = "bash"
    THEN "echo 'export PATH=$PATH:" \o bin_path \o "' >> " \o Home \o "/.bashrc"
    ELSE IF shell = "zsh"
    THEN "echo 'export PATH=$PATH:" \o bin_path \o "' >> " \o Home \o "/.zshrc"
    ELSE IF shell = "fish"
    THEN "echo 'set -gx PATH $PATH " \o bin_path \o "' >> " \o Home
            \o "/.config/fish/config.fish"
    ELSE None

OS_value(os) == IF os = "MacOS" THEN "apple-darwin" ELSE "unknown-linux-gnu"

Arch_value(arch) == IF arch = "x86_64" THEN "x86_64" ELSE "aarch64"

Channels == {"stable", "beta"}

(***************************************************************************)
(* detect_platform: the two mappings.  "unsupported" stands for the branch *)
(* that prints the raw value and calls sys.exit(1).                        *)
(***************************************************************************)
detect_os(os_name) ==
    IF StartsWith(os_name, "Darwin") THEN "MacOS"
    ELSE IF StartsWith(os_name, "Linux") THEN "Linux"
    ELSE "unsupported"

\* faulty variant: "aarch64" dropped from the arm64 branch
detect_arch_arm64_only(arch) ==
    IF arch = "arm64" THEN "arm64"
    ELSE IF arch = "x86_64" THEN "x86_64"
    ELSE "unsupported"

detect_arch(arch) ==
    IF arch \in {"arm64", "aarch64"} THEN "arm64"
    ELSE IF arch = "x86_64" THEN "x86_64"
    ELSE "unsupported"

(***************************************************************************)
(* get_release_data: the pre-release filter.                               *)
(***************************************************************************)
IsPreRelease(r) == r.prerelease

\* faulty variant: the prerelease filter left out
pre_releases_unfiltered(releases) == releases

pre_releases(releases) == SelectSeq(releases, IsPreRelease)

(***************************************************************************)
(* download_and_extract: the asset pattern and the first-match search.     *)
(* re.compile(rf"linkup-.+-{arch}-{os}\.tar\.gz$").match(name): anchored   *)
(* at the start by match(), at the end by $, with at least one character   *)
(* for ".+".  Asset names hold no newline (GitHub restricts them to        *)
(* letters, digits, '.', '-' and '_'), so "." matches every character.     *)
(***************************************************************************)
asset_suffix(arch_value, os_value) ==
    "-" \o arch_value \o "-" \o os_value \o ".tar.gz"

\* faulty variant: ".*" in place of ".+"
asset_pattern_match_star(name, arch_value, os_value) ==
    /\ StartsWith(name, "linkup-")
    /\ EndsWith(SubSeq(name, Len("linkup-") + 1, Len(name)),
                asset_suffix(arch_value, os_value))

asset_pattern_match(name, arch_value, os_value) ==
    /\ StartsWith(name, "linkup-")
    /\ EndsWith(SubSeq(name, Len("linkup-") + 1, Len(name)),
                asset_suffix(arch_value, os_value))
    /\ Len(name) >= Len("linkup-") + 1 + Len(asset_suffix(arch_value, os_value))

\* next((a.browser_download_url for a in assets if pattern.match(a.name)), None)
find_download_url(assets, arch_value, os_value) ==
    LET hits == {i \in 1..Len(assets) :
                    asset_pattern_match(assets[i].name, arch_value, os_value)}
    IN  IF hits = {} THEN None
        ELSE assets[CHOOSE i \in hits : \A j \in hits : i <= j].browser_download_url

target_location(os) ==
    IF os = "MacOS" THEN Home \o "/.linkup/bin" ELSE "/usr/local/bin"

local_tar_path(url) == "/tmp/" \o basename(url)

(***************************************************************************)
(* tar_extract: the filter passed to TarFile.extractall, by Python version.*)
(* "data" rejects a member whose path leaves the destination; without a    *)
(* filter every member is written where its name says.                     *)
(***************************************************************************)
tar_extract_filter(version) ==
    IF version.major < 3 \/ (version.major = 3 /\ version.minor < 12)
    THEN "fully_trusted"
    ELSE "data"

IsTraversal(member) == StartsWith(member, "../")

\* TarFile.extractall over the members, in order: what ends up on disk.
RECURSIVE extractall(_, _, _)
extractall(members, filter, acc) ==
    IF members = <<>> THEN acc
    ELSE LET m == Head(members)
         IN  IF IsTraversal(m) /\ filter = "data"
             THEN [acc EXCEPT !.error = "OutsideDestinationError"]
             ELSE extractall(Tail(members), filter,
                    [acc EXCEPT !.bin = @ \/ m = "linkup",
                                !.outside = @ \/ IsTraversal(m)])

(***************************************************************************)
(* Inputs: what the environment can hand to the script.                    *)
(***************************************************************************)
PythonVersions ==
    {[major |-> 3, minor |-> 1], [major |-> 3, minor |-> 11],
     [major |-> 3, minor |-> 12]}

Argvs ==
    {<<>>, <<"--channel", "stable">>, <<"--channel", "beta">>,
     <<"--channel", "nightly">>, <<"--help">>}

\* os.uname(): (sysname, machine)
Unames ==
    {<<"Darwin", "arm64">>, <<"Darwin", "x86_64">>, <<"Linux", "aarch64">>,
     <<"Linux", "x86_64">>, <<"Linux2", "arm64">>, <<"Linux", "i686">>,
     <<"GNU/Linux", "x86_64">>, <<"FreeBSD", "riscv64">>, <<"Darwin", "AArch64">>}

AssetNames ==
    {"linkup-v1.2.3-x86_64-unknown-linux-gnu.tar.gz",
     "linkup-v1.2.3-aarch64-apple-darwin.tar.gz",
     "linkup-v1.2.4-x86_64-unknown-linux-gnu.tar.gz",
     "linkup--x86_64-unknown-linux-gnu.tar.gz",
     "xlinkup-v1.2.3-aarch64-apple-darwin.tar.gz",
     "linkup-v1.2.3-aarch64-apple-darwin.tar.gz.sha256"}

AssetUrl(name) == "https://github.com/dl/" \o name

Asset(name) == [name |-> name, browser_download_url |-> AssetUrl(name)]

AssetLists == SeqsUpTo({Asset(n) : n \in AssetNames}, MaxAssets)

ExampleAssets ==
    <<Asset("linkup-v1.2.3-x86_64-unknown-linux-gnu.tar.gz"),
      Asset("linkup-v1.2.3-aarch64-apple-darwin.tar.gz")>>

\* bodies the /releases/latest endpoint can return
LatestPool ==
    {[tag_name |-> "v1.2.3", prerelease |-> FALSE, assets |-> a] : a \in AssetLists}

\* entries the /releases endpoint can list
ReleasePool ==
    {[tag_name |-> "v2.0.0-beta.1", prerelease |-> TRUE, assets |-> ExampleAssets],
     [tag_name |-> "v2.0.0-beta.2", prerelease |-> TRUE, assets |-> <<>>],
     [tag_name |-> "v1.2.3", prerelease |-> FALSE, assets |-> ExampleAssets],
     [tag_name |-> "v1.2.2", prerelease |-> FALSE, assets |-> <<>>]}

ReleaseLists == SeqsUpTo(ReleasePool, MaxReleases)

\* member names of the archive the download URL can serve
Archives ==
    {<<"linkup">>, <<"README">>, <<"linkup", "../evil">>}

\* os.environ entries: <<>> when the variable is unset, <<value>> otherwise
PathLinuxDir == <<"/usr/local/bin:/usr/bin">>

PathMacDir == <<"/usr/bin:/home/u/.linkup/bin">>

PathNeither == <<"/usr/local/bin/sub:/home/u/.linkup">>

\* (PATH, SHELL) pairs of os.environ
Environs ==
    {<<PathLinuxDir, <<"/bin/bash">> >>, <<PathMacDir, <<"/usr/bin/zsh">> >>,
     <<PathNeither, <<"/bin/bash">> >>, <<PathNeither, <<"/usr/bin/zsh">> >>,
     <<PathNeither, <<"/bin/fish">> >>, <<PathNeither, <<"/bin/FISH">> >>,
     <<PathNeither, <<"/bin/sh">> >>, <<PathNeither, <<>> >>,
     << <<>>, <<"/bin/fish">> >>, << <<>>, <<>> >>}

environ_get(entry, default) == IF entry = <<>> THEN default ELSE entry[1]

(***************************************************************************)
(* parse_arguments: argparse with the single option --channel              *)
(* (choices stable/beta, default stable) and the -h/--help option that     *)
(* ArgumentParser adds by default.                                         *)
(***************************************************************************)
\* faulty variant: --channel declared without choices=
parse_args_no_choices(args) ==
    IF args = <<>> THEN [kind |-> "ok", channel |-> "stable"]
    ELSE IF args[1] \in {"-h", "--help"} THEN [kind |-> "help", channel |-> None]
    ELSE IF Len(args) = 2 /\ args[1] = "--channel"
    THEN [kind |-> "ok", channel |-> args[2]]
    ELSE [kind |-> "error", channel |-> None]

parse_args(args) ==
    IF args = <<>> THEN [kind |-> "ok", channel |-> "stable"]
    ELSE IF args[1] \in {"-h", "--help"} THEN [kind |-> "help", channel |-> None]
    ELSE IF Len(args) = 2 /\ args[1] = "--channel" /\ args[2] \in Channels
    THEN [kind |-> "ok", channel |-> args[2]]
    ELSE [kind |-> "error", channel |-> None]

(***************************************************************************)
(* Messages.                                                               *)
(***************************************************************************)
MsgAlreadyInstalled ==
    "Linkup is already installed. To update it, run 'linkup update'."

MsgNoCloudflared ==
    "WARN: 'cloudflared' is not installed. Please install it before installing Linkup."

MsgNoTarball == "Could not find matching tarball in the release assets."

MsgFallback == "No pre-releases found. Falling back to latest stable release."

MsgComplete == "Linkup installation complete!"

MsgLatest(channel, tag) ==
    "Latest release on " \o channel \o " channel: " \o tag \o "."

MsgLooking(os, arch) ==
    "Looking for asset for " \o OS_value(os) \o "/" \o Arch_value(arch) \o "..."

MsgInstalled(path) == "Linkup installed at " \o path

MsgAddToPath(dir) == "To start using Linkup, add '" \o dir \o "' to your PATH."

print(line) == stdout' = Append(stdout, line)

(***************************************************************************)
(* The initial state: the interpreter has started, nothing has run.        *)
(***************************************************************************)
Init ==
    /\ pc = "import"
    /\ python_version \in PythonVersions
    /\ argv \in Argvs
    /\ which_linkup \in BOOLEAN
    /\ context = None
    /\ user_os = None
    /\ user_arch = None
    /\ uname = <<>>
    /\ api_releases = <<>>
    /\ api_latest = <<>>
    /\ release = <<>>
    /\ download_url = None
    /\ archive = <<>>
    /\ tmp_tar = FALSE
    /\ tmp_bin = FALSE
    /\ install_bin = {}
    /\ outside_written = FALSE
    /\ raised = None
    /\ unlink_failed = {}
    /\ requests = <<>>
    /\ sudo_calls = <<>>
    /\ local_calls = <<>>
    /\ env = <<>>
    /\ stdout = <<>>
    /\ exit_status = <<>>

\* faulty variant: sys.exit() called without its status
Exit_without_status(code) == pc' = "exit" /\ exit_status' = <<0>>

\* sys.exit(code), or the interpreter ending on an uncaught exception (1)
Exit(code) == pc' = "exit" /\ exit_status' = <<code>>

\* an exception inside the try block of download_and_extract: the finally
\* block runs next, with the exception pending
Raise(exc) == raised' = exc /\ pc' = "finally_tar" /\ exit_status' = exit_status

Goto(label) == pc' = label /\ exit_status' = exit_status

(***************************************************************************)
(* Lines 6-11: the interpreter version gate.                               *)
(***************************************************************************)
version_check ==
    /\ pc = "import"
    /\ IF python_version.major < 3 \/ python_version.minor < 2
       THEN print("Minimum required Python version is 3.2.") /\ Exit(1)
       ELSE Goto("main") /\ UNCHANGED stdout
    /\ UNCHANGED <<python_version, argv, which_linkup, context, user_os,
                   user_arch, uname, api_releases, api_latest, release,
                   download_url, archive, tmp_tar, tmp_bin, install_bin,
                   outside_written, raised, unlink_failed, requests,
                   sudo_calls, local_calls, env>>

(***************************************************************************)
(* main, lines 298-300: the already-installed short-circuit.               *)
(***************************************************************************)
main_already_installed ==
    /\ pc = "main"
    /\ IF which_linkup
       THEN print(MsgAlreadyInstalled) /\ Exit(0)
       ELSE Goto("parse_arguments") /\ UNCHANGED stdout
    /\ UNCHANGED <<python_version, argv, which_linkup, context, user_os,
                   user_arch, uname, api_releases, api_latest, release,
                   download_url, archive, tmp_tar, tmp_bin, install_bin,
                   outside_written, raised, unlink_failed, requests,
                   sudo_calls, local_calls, env>>

(***************************************************************************)
(* parse_arguments, lines 281-294 (called at line 302).                    *)
(***************************************************************************)
parse_arguments ==
    /\ pc = "parse_arguments"
    /\ LET parsed == parse_args(argv)
       IN  IF parsed.kind = "ok"
           THEN /\ context' = parsed.channel
                /\ Goto("check_dependencies")
                /\ UNCHANGED stdout
           ELSE IF parsed.kind = "help"
           THEN /\ print("usage: install.py [-h] [--channel {stable,beta}]")
                /\ Exit(0)
                /\ UNCHANGED context
           ELSE /\ print("usage: install.py [-h] [--channel {stable,beta}]")
                /\ Exit(2)
                /\ UNCHANGED context
    /\ UNCHANGED <<python_version, argv, which_linkup, user_os,
                   user_arch, uname, api_releases, api_latest, release,
                   download_url, archive, tmp_tar, tmp_bin, install_bin,
                   outside_written, raised, unlink_failed, requests,
                   sudo_calls, local_calls, env>>

(***************************************************************************)
(* check_dependencies, lines 112-120.                                      *)
(***************************************************************************)
check_dependencies ==
    /\ pc = "check_dependencies"
    /\ \E cloudflared_found \in BOOLEAN :
          IF ~cloudflared_found
          THEN print(MsgNoCloudflared) /\ Exit(1)
          ELSE Goto("detect_platform") /\ UNCHANGED stdout
    /\ UNCHANGED <<python_version, argv, which_linkup, context, user_os,
                   user_arch, uname, api_releases, api_latest, release,
                   download_url, archive, tmp_tar, tmp_bin, install_bin,
                   outside_written, raised, unlink_failed, requests,
                   sudo_calls, local_calls, env>>

(***************************************************************************)
(* detect_platform, lines 123-143.                                         *)
(***************************************************************************)
detect_platform ==
    /\ pc = "detect_platform"
    /\ \E u \in Unames :
        LET os_name == u[1]
            arch == u[2]
        IN
          /\ uname' = <<[sysname |-> os_name, machine |-> arch]>>
          /\ IF detect_os(os_name) = "unsupported"
             THEN /\ print("Unsupported OS: " \o os_name)
                  /\ Exit(1)
                  /\ UNCHANGED <<user_os, user_arch>>
             ELSE IF detect_arch(arch) = "unsupported"
             THEN /\ print("Unsupported Arch: " \o arch)
                  /\ Exit(1)
                  /\ UNCHANGED <<user_os, user_arch>>
             ELSE /\ user_os' = detect_os(os_name)
                  /\ user_arch' = detect_arch(arch)
                  /\ Goto("get_release_data")
                  /\ UNCHANGED stdout
    /\ UNCHANGED <<python_version, argv, which_linkup, context,
                   api_releases, api_latest, release,
                   download_url, archive, tmp_tar, tmp_bin, install_bin,
                   outside_written, raised, unlink_failed, requests,
                   sudo_calls, local_calls, env>>

(***************************************************************************)
(* get_release_data, lines 146-161, with list_releases (164-174) and       *)
(* get_latest_stable_release (177-187).  A request that fails raises out   *)
(* of main: the interpreter prints the traceback and exits with status 1.  *)
(***************************************************************************)
RequestList == "GET /repos/mentimeter/linkup/releases"

RequestLatest == "GET /repos/mentimeter/linkup/releases/latest"

get_release_data ==
    /\ pc = "get_release_data"
    /\ IF context = "beta"
       THEN \/ /\ requests' = Append(requests, RequestList)
               /\ print("Looking for the latest beta version...")
               /\ Exit(1)
               /\ UNCHANGED <<api_releases, api_latest, release>>
            \/ \E releases \in ReleaseLists :
                  /\ api_releases' = <<releases>>
                  /\ IF pre_releases(releases) = <<>>
                     THEN \/ /\ requests' = requests \o <<RequestList, RequestLatest>>
                             /\ stdout' = stdout \o
                                   <<"Looking for the latest beta version...",
                                     MsgFallback>>
                             /\ Exit(1)
                             /\ UNCHANGED <<api_latest, release>>
                          \/ \E latest \in LatestPool :
                                /\ requests' = requests \o <<RequestList, RequestLatest>>
                                /\ stdout' = stdout \o
                                      <<"Looking for the latest beta version...",
                                        MsgFallback>>
                                /\ api_latest' = <<latest>>
                                /\ release' = <<latest>>
                                /\ Goto("download_and_extract")
                     ELSE /\ requests' = Append(requests, RequestList)
                          /\ stdout' = stdout \o
                                <<"Looking for the latest beta version...",
                                  "Found pre-release version: "
                                     \o pre_releases(releases)[1].tag_name>>
                          /\ release' = <<pre_releases(releases)[1]>>
                          /\ Goto("download_and_extract")
                          /\ UNCHANGED api_latest
       ELSE \/ /\ requests' = Append(requests, RequestLatest)
               /\ Exit(1)
               /\ UNCHANGED <<api_releases, api_latest, release, stdout>>
            \/ \E latest \in LatestPool :
                  /\ requests' = Append(requests, RequestLatest)
                  /\ api_latest' = <<latest>>
                  /\ release' = <<latest>>
                  /\ Goto("download_and_extract")
                  /\ UNCHANGED <<api_releases, stdout>>
    /\ UNCHANGED <<python_version, argv, which_linkup, context, user_os,
                   user_arch, uname, download_url, archive, tmp_tar, tmp_bin,
                   install_bin, outside_written, raised, unlink_failed,
                   sudo_calls, local_calls, env>>

(***************************************************************************)
(* download_and_extract, lines 208-229: pick the asset (main, lines        *)
(* 309-316, has chosen target_location from user_os).                      *)
(***************************************************************************)
select_asset ==
    /\ pc = "download_and_extract"
    /\ LET url == find_download_url(release[1].assets, Arch_value(user_arch),
                                    OS_value(user_os))
       IN  /\ download_url' = url
           /\ IF url = None
              THEN /\ stdout' = stdout \o
                         <<MsgLatest(context, release[1].tag_name),
                           MsgLooking(user_os, user_arch), MsgNoTarball>>
                   /\ Exit(1)
              ELSE /\ stdout' = stdout \o
                         <<MsgLatest(context, release[1].tag_name),
                           MsgLooking(user_os, user_arch), "Downloading: " \o url>>
                   /\ Goto("download")
    /\ UNCHANGED <<python_version, argv, which_linkup, context, user_os,
                   user_arch, uname, api_releases, api_latest, release,
                   archive, tmp_tar, tmp_bin, install_bin,
                   outside_written, raised, unlink_failed, requests,
                   sudo_calls, local_calls, env>>

(***************************************************************************)
(* download_and_extract, lines 232-236: stream the response to             *)
(* local_tar_path.  urlopen can fail before the file is opened; the copy   *)
(* can fail after it was created.                                          *)
(***************************************************************************)
download ==
    /\ pc = "download"
    /\ requests' = Append(requests, "GET " \o download_url)
    /\ \/ Raise("URLError") /\ UNCHANGED <<tmp_tar, archive>>
       \/ Raise("OSError") /\ tmp_tar' = TRUE /\ UNCHANGED archive
       \/ \E members \in Archives :
             /\ archive' = members
             /\ tmp_tar' = TRUE
             /\ Goto("extract")
             /\ UNCHANGED raised
    /\ UNCHANGED <<python_version, argv, which_linkup, context, user_os,
                   user_arch, uname, api_releases, api_latest, release,
                   download_url, tmp_bin, install_bin,
                   outside_written, unlink_failed, stdout,
                   sudo_calls, local_calls, env>>

(***************************************************************************)
(* download_and_extract, lines 238-240, with tar_extract (190-198).        *)
(* The archive can be unreadable from member n + 1 on (ReadError); the     *)
(* members before it have been written.                                    *)
(***************************************************************************)
extract ==
    /\ pc = "extract"
    /\ print("Decompressing " \o local_tar_path(download_url))
    /\ \E n \in 0..Len(archive) :
          LET done == extractall(SubSeq(archive, 1, n),
                                 tar_extract_filter(python_version),
                                 [bin |-> FALSE, outside |-> FALSE, error |-> None])
          IN  /\ tmp_bin' = (tmp_bin \/ done.bin)
              /\ outside_written' = (outside_written \/ done.outside)
              /\ IF done.error # None THEN Raise(done.error)
                 ELSE IF n < Len(archive) THEN Raise("ReadError")
                 ELSE Goto("install") /\ UNCHANGED raised
    /\ UNCHANGED <<python_version, argv, which_linkup, context, user_os,
                   user_arch, uname, api_releases, api_latest, release,
                   download_url, archive, tmp_tar, install_bin,
                   unlink_failed, requests,
                   sudo_calls, local_calls, env>>

(***************************************************************************)
(* download_and_extract, lines 244-247: the in-process install on macOS.   *)
(***************************************************************************)
installation_bin_path == target_location(user_os) \o "/linkup"

UnchangedByInstall ==
    UNCHANGED <<python_version, argv, which_linkup, context, user_os,
                user_arch, uname, api_releases, api_latest, release,
                download_url, archive, tmp_tar, outside_written,
                unlink_failed, requests, env>>

macos_mkdir ==
    /\ pc = "install"
    /\ user_os = "MacOS"
    /\ local_calls' = Append(local_calls, "mkdir")
    /\ \/ Raise("OSError")
       \/ Goto("macos_move") /\ UNCHANGED raised
    /\ UNCHANGED <<tmp_bin, install_bin, sudo_calls, stdout>>
    /\ UnchangedByInstall

macos_move ==
    /\ pc = "macos_move"
    /\ local_calls' = Append(local_calls, "move")
    /\ \/ /\ Raise(IF tmp_bin THEN "OSError" ELSE "FileNotFoundError")
          /\ UNCHANGED <<tmp_bin, install_bin>>
       \/ /\ tmp_bin
          /\ tmp_bin' = FALSE
          /\ install_bin' = {"present"}
          /\ Goto("macos_chmod")
          /\ UNCHANGED raised
    /\ UNCHANGED <<sudo_calls, stdout>>
    /\ UnchangedByInstall

macos_chmod ==
    /\ pc = "macos_chmod"
    /\ local_calls' = Append(local_calls, "chmod")
    /\ \/ Raise("OSError") /\ UNCHANGED <<install_bin, stdout>>
       \/ /\ install_bin' = install_bin \cup {"0755"}
          /\ print(MsgInstalled(installation_bin_path))
          /\ Goto("finally_tar")
          /\ UNCHANGED raised
    /\ UNCHANGED <<tmp_bin, sudo_calls>>
    /\ UnchangedByInstall

(***************************************************************************)
(* download_and_extract, lines 248-253: the elevated install on Linux.     *)
(* subprocess.run(..., check=True) raises CalledProcessError when the      *)
(* command returns a non-zero code.                                        *)
(***************************************************************************)
ReturnCodes == {0, 1}

\* faulty variant: subprocess.run without check=True
run_unchecked(returncode) == FALSE

run_check_raises(returncode) == returncode # 0

sudo_mv ==
    /\ pc = "install"
    /\ user_os = "Linux"
    /\ sudo_calls' = Append(sudo_calls, "mv")
    /\ \E returncode \in ReturnCodes :
          /\ returncode = 0 => tmp_bin
          /\ IF returncode = 0
             THEN tmp_bin' = FALSE /\ install_bin' = {"present"}
             ELSE UNCHANGED <<tmp_bin, install_bin>>
          /\ IF run_check_raises(returncode)
             THEN Raise("CalledProcessError")
             ELSE Goto("sudo_chmod") /\ UNCHANGED raised
    /\ UNCHANGED <<local_calls, stdout>>
    /\ UnchangedByInstall

sudo_chmod ==
    /\ pc = "sudo_chmod"
    /\ sudo_calls' = Append(sudo_calls, "chmod 755")
    /\ \E returncode \in ReturnCodes :
          /\ returncode = 0 => "present" \in install_bin
          /\ IF returncode = 0
             THEN install_bin' = install_bin \cup {"0755"}
             ELSE UNCHANGED install_bin
          /\ IF run_check_raises(returncode)
             THEN Raise("CalledProcessError")
             ELSE Goto("sudo_setcap") /\ UNCHANGED raised
    /\ UNCHANGED <<tmp_bin, local_calls, stdout>>
    /\ UnchangedByInstall

sudo_setcap ==
    /\ pc = "sudo_setcap"
    /\ sudo_calls' = Append(sudo_calls, "setcap cap_net_bind_service=+ep")
    /\ \E returncode \in ReturnCodes :
          /\ returncode = 0 => "present" \in install_bin
          /\ IF returncode = 0
             THEN install_bin' = install_bin \cup {"cap"}
             ELSE UNCHANGED install_bin
          /\ IF run_check_raises(returncode)
             THEN Raise("CalledProcessError") /\ UNCHANGED stdout
             ELSE /\ print(MsgInstalled(installation_bin_path))
                  /\ Goto("finally_tar")
                  /\ UNCHANGED raised
    /\ UNCHANGED <<tmp_bin, local_calls>>
    /\ UnchangedByInstall

(***************************************************************************)
(* download_and_extract, lines 256-261: the finally block.  An unlink that *)
(* raises leaves the block at once; the interpreter then exits with        *)
(* status 1.  When the block completes, a pending exception of the try     *)
(* block propagates out of main (status 1); otherwise main goes on.        *)
(***************************************************************************)
UnchangedByFinally ==
    UNCHANGED <<python_version, argv, which_linkup, context, user_os,
                user_arch, uname, api_releases, api_latest, release,
                download_url, archive, install_bin, outside_written, raised,
                requests, sudo_calls, local_calls, env, stdout>>

finally_unlink_tar ==
    /\ pc = "finally_tar"
    /\ IF tmp_tar
       THEN \/ /\ tmp_tar' = FALSE
               /\ Goto("finally_bin")
               /\ UNCHANGED unlink_failed
            \/ /\ unlink_failed' = unlink_failed \cup {"tar"}
               /\ Exit(1)
               /\ UNCHANGED tmp_tar
       ELSE Goto("finally_bin") /\ UNCHANGED <<tmp_tar, unlink_failed>>
    /\ UNCHANGED tmp_bin
    /\ UnchangedByFinally

finally_unlink_bin ==
    /\ pc = "finally_bin"
    /\ IF tmp_bin
       THEN \/ /\ tmp_bin' = FALSE
               /\ IF raised # None THEN Exit(1) ELSE Goto("setup_path")
               /\ UNCHANGED unlink_failed
            \/ /\ unlink_failed' = unlink_failed \cup {"bin"}
               /\ Exit(1)
               /\ UNCHANGED tmp_bin
       ELSE /\ IF raised # None THEN Exit(1) ELSE Goto("setup_path")
            /\ UNCHANGED <<tmp_bin, unlink_failed>>
    /\ UNCHANGED tmp_tar
    /\ UnchangedByFinally

(***************************************************************************)
(* setup_path, lines 264-278: the lines it prints.                         *)
(***************************************************************************)
setup_path_lines(PATH, SHELL, dir) ==
    IF dir \in Range(Split(environ_get(PATH, ""), ":")) THEN <<>>
    ELSE LET shell == Shell_from_str(basename(environ_get(SHELL, "")))
         IN  IF shell = None THEN <<MsgAddToPath(dir)>>
             ELSE <<MsgAddToPath(dir),
                    "Since you are using " \o shell
                       \o ", you can run the following to add to your profile:",
                    add_to_profile_command(shell, dir),
                    "Then restart your shell.">>

setup_path ==
    /\ pc = "setup_path"
    /\ \E e \in Environs :
        LET PATH == e[1]
            SHELL == e[2]
        IN
          /\ env' = <<[PATH |-> PATH, SHELL |-> SHELL]>>
          /\ stdout' = stdout \o setup_path_lines(PATH, SHELL, target_location(user_os))
    /\ Goto("complete")
    /\ UNCHANGED <<python_version, argv, which_linkup, context, user_os,
                   user_arch, uname, api_releases, api_latest, release,
                   download_url, archive, tmp_tar, tmp_bin, install_bin,
                   outside_written, raised, unlink_failed, requests,
                   sudo_calls, local_calls>>

(***************************************************************************)
(* main, line 320: the last line; the interpreter then exits with 0.       *)
(***************************************************************************)
main_complete ==
    /\ pc = "complete"
    /\ print(MsgComplete)
    /\ Exit(0)
    /\ UNCHANGED <<python_version, argv, which_linkup, context, user_os,
                   user_arch, uname, api_releases, api_latest, release,
                   download_url, archive, tmp_tar, tmp_bin, install_bin,
                   outside_written, raised, unlink_failed, requests,
                   sudo_calls, local_calls, env>>

Next ==
    \/ version_check
    \/ main_already_installed
    \/ parse_arguments
    \/ check_dependencies
    \/ detect_platform
    \/ get_release_data
    \/ select_asset
    \/ download
    \/ extract
    \/ macos_mkdir
    \/ macos_move
    \/ macos_chmod
    \/ sudo_mv
    \/ sudo_chmod
    \/ sudo_setcap
    \/ finally_unlink_tar
    \/ finally_unlink_bin
    \/ setup_path
    \/ main_complete

Spec == Init /\ [][Next]_vars

(***************************************************************************)
(* Properties.                                                             *)
(***************************************************************************)
Exited == exit_status # <<>>

Contains(seq, x) == \E i \in DOMAIN seq : seq[i] = x

\* the version gate let the script through: main has been entered
MainEntered == pc # "import" /\ ~(python_version.major < 3 \/ python_version.minor < 2)

\* the download step was reached: the request for the asset was issued
ReachedDownload == download_url # None /\ Contains(requests, "GET " \o download_url)

UsageLine == "usage: install.py [-h] [--channel {stable,beta}]"

\* C1: once the download step was reached, at process exit neither the
\* temporary archive nor the temporary extracted binary exists, whatever the
\* outcome of the protected region; a file may remain only when its own
\* deletion failed, and a failed deletion of the archive does not keep the
\* extracted binary from being deleted.
C1_TempFilesRemovedAtExit ==
    (Exited /\ ReachedDownload) =>
        /\ tmp_tar => "tar" \in unlink_failed
        /\ tmp_bin => "bin" \in unlink_failed

(***************************************************************************)
(* C2                                                                      *)
(***************************************************************************)
ShortCircuited == which_linkup /\ stdout = <<MsgAlreadyInstalled>>

CompletedAllStages ==
    /\ env # <<>>
    /\ stdout # <<>>
    /\ stdout[Len(stdout)] = MsgComplete
    /\ Contains(stdout, MsgInstalled(installation_bin_path))

HelpRequested == ~which_linkup /\ argv # <<>> /\ argv[1] \in {"-h", "--help"}

\* what a later stage would have left behind, by the stage the error is in
NothingAfterPreflight ==
    uname = <<>> /\ requests = <<>> /\ release = <<>> /\ download_url = None
NothingAfterDetection == requests = <<>> /\ release = <<>> /\ download_url = None
NothingAfterResolution ==
    download_url = None /\ ~tmp_tar /\ ~tmp_bin /\ install_bin = {} /\ env = <<>>
NothingAfterInstall == env = <<>> /\ ~Contains(stdout, MsgComplete)

FatalErrorsAbort ==
    /\ Contains(stdout, MsgNoCloudflared) =>
          Exited /\ exit_status # <<0>> /\ NothingAfterPreflight
    /\ (uname # <<>> /\ (detect_os(uname[1].sysname) = "unsupported"
                          \/ detect_arch(uname[1].machine) = "unsupported")) =>
          Exited /\ exit_status # <<0>> /\ NothingAfterDetection
    /\ (requests # <<>> /\ release = <<>> /\ pc # "get_release_data") =>
          Exited /\ exit_status # <<0>> /\ NothingAfterResolution
    /\ Contains(stdout, MsgNoTarball) =>
          Exited /\ exit_status # <<0>> /\ NothingAfterResolution
             /\ Len(requests) <= 2
    /\ raised # None =>
          (Exited => exit_status # <<0>>) /\ NothingAfterInstall
             /\ pc \in {"finally_tar", "finally_bin", "exit"}

\* C2 (as stated): a run of main exits with status 0 exactly when it
\* short-circuits on an installed linkup or completes every stage through
\* shell integration.
C2_ExitZeroIffShortCircuitOrComplete ==
    (MainEntered /\ Exited) =>
        (exit_status = <<0>> <=> (ShortCircuited \/ CompletedAllStages))

\* C2 (amended): a run of main exits with status 0 exactly when it
\* short-circuits on an installed linkup, completes every stage through
\* shell integration, or was asked for -h/--help with linkup not installed;
\* every run that hits a fatal error ends with a non-zero status and runs
\* no later stage.
C2_ExitZeroIffShortCircuitCompleteOrHelp ==
    MainEntered =>
        /\ Exited =>
              (exit_status = <<0>> <=>
                  (ShortCircuited \/ CompletedAllStages \/ HelpRequested))
        /\ FatalErrorsAbort

\* linkup was not installed and the run went through every stage to status 0
C2_Witness ==
    /\ MainEntered
    /\ ~which_linkup
    /\ CompletedAllStages
    /\ exit_status = <<0>>

(***************************************************************************)
(* C3                                                                      *)
(***************************************************************************)
\* the architecture and OS strings of asset names, as the claim gives them
ArchString == IF user_arch = "arm64" THEN "aarch64" ELSE "x86_64"

OSSuffix == IF user_os = "MacOS" THEN "apple-darwin" ELSE "unknown-linux-gnu"

\* name = 'linkup-' + non-empty text + '-' + arch + '-' + OS suffix + '.tar.gz'
HasAssetForm(name) ==
    LET tail == "-" \o ArchString \o "-" \o OSSuffix \o ".tar.gz"
        n == Len(name) - Len("linkup-") - Len(tail)
    IN  /\ n >= 1
        /\ name = "linkup-" \o SubSeq(name, 8, 7 + n) \o tail

\* download_and_extract has searched the assets of the selected release
SelectionDone == release # <<>> /\ pc # "download_and_extract"

NoDownloadNoWrite ==
    /\ \A i \in DOMAIN requests : requests[i] \in {RequestList, RequestLatest}
    /\ ~tmp_tar /\ ~tmp_bin /\ install_bin = {} /\ ~outside_written
    /\ archive = <<>> /\ sudo_calls = <<>> /\ local_calls = <<>>

\* C3: the URL downloaded is that of the first asset, in release order,
\* whose name has the form linkup-<text>-<arch>-<os>.tar.gz; when no asset
\* has that form the run prints the no-matching-tarball error and exits
\* non-zero before any download or filesystem write; the three cases of the
\* two-asset example select the first asset, the second, and none.
C3_FirstMatchingAssetOrAbort ==
    SelectionDone =>
        LET assets == release[1].assets
            formed == {i \in DOMAIN assets : HasAssetForm(assets[i].name)}
        IN  /\ formed # {} =>
                  \E i \in formed :
                      /\ \A j \in formed : i <= j
                      /\ download_url = assets[i].browser_download_url
                      /\ ReachedDownload \/ pc = "download"
            /\ formed = {} =>
                  /\ download_url = None
                  /\ Exited /\ exit_status # <<0>>
                  /\ stdout[Len(stdout)] = MsgNoTarball
                  /\ NoDownloadNoWrite
            /\ assets = ExampleAssets =>
                  /\ (user_os = "Linux" /\ user_arch = "x86_64") =>
                        download_url = AssetUrl("linkup-v1.2.3-x86_64-unknown-linux-gnu.tar.gz")
                  /\ (user_os = "MacOS" /\ user_arch = "arm64") =>
                        download_url = AssetUrl("linkup-v1.2.3-aarch64-apple-darwin.tar.gz")
                  /\ (user_os = "MacOS" /\ user_arch = "x86_64") =>
                        download_url = None /\ Contains(stdout, MsgNoTarball)

\* two different assets fit (Linux, x86_64); the first one listed was taken
C3_Witness ==
    /\ SelectionDone
    /\ user_os = "Linux" /\ user_arch = "x86_64"
    /\ Len(release[1].assets) = 2
    /\ release[1].assets[1].name = "linkup-v1.2.4-x86_64-unknown-linux-gnu.tar.gz"
    /\ release[1].assets[2].name = "linkup-v1.2.3-x86_64-unknown-linux-gnu.tar.gz"
    /\ download_url = AssetUrl("linkup-v1.2.4-x86_64-unknown-linux-gnu.tar.gz")
    /\ tmp_tar

(***************************************************************************)
(* C4                                                                      *)
(***************************************************************************)
\* C4: on the beta channel get_release_data returns the first entry of the
\* list, in the list's own order, whose pre-release flag is set; with no such
\* entry it prints the fallback message and returns the latest-stable
\* result; on the stable channel the list endpoint is not queried and the
\* latest-stable result is returned; one release is selected.
C4_ReleaseSelection ==
    release # <<>> =>
        /\ Len(release) = 1
        /\ context = "beta" =>
              /\ api_releases # <<>>
              /\ requests[1] = RequestList
              /\ LET listed == api_releases[1]
                     flagged == {i \in DOMAIN listed : listed[i].prerelease}
                 IN  IF flagged # {}
                     THEN /\ \E i \in flagged :
                                /\ \A j \in flagged : i <= j
                                /\ release[1] = listed[i]
                          /\ api_latest = <<>>
                          /\ ~Contains(requests, RequestLatest)
                          /\ ~Contains(stdout, MsgFallback)
                     ELSE /\ release = api_latest
                          /\ requests[2] = RequestLatest
                          /\ Contains(stdout, MsgFallback)
        /\ context = "stable" =>
              /\ api_releases = <<>>
              /\ ~Contains(requests, RequestList)
              /\ requests[1] = RequestLatest
              /\ release = api_latest
              /\ ~Contains(stdout, MsgFallback)

\* a beta run whose list holds a stable entry, then beta.1, then beta.2
C4_Witness ==
    /\ context = "beta"
    /\ api_releases # <<>>
    /\ Len(api_releases[1]) = 3
    /\ api_releases[1][1].tag_name = "v1.2.3"
    /\ api_releases[1][2].tag_name = "v2.0.0-beta.1"
    /\ api_releases[1][3].tag_name = "v2.0.0-beta.2"
    /\ release # <<>>
    /\ release[1].tag_name = "v2.0.0-beta.1"

\* C5: extraction never writes a file outside the extraction directory, on
\* any supported Python version and for any archive.
C5_NoWriteOutsideTarget == ~outside_written

(***************************************************************************)
(* C6                                                                      *)
(***************************************************************************)
\* C6: kernel names starting with Darwin give macOS, with Linux give Linux;
\* machine types arm64 and aarch64 give arm64, x86_64 gives x86_64; any
\* other kernel name or machine type is printed and the process exits
\* non-zero, with no network request made.
C6_PlatformMapping ==
    uname # <<>> =>
        LET sysname == uname[1].sysname
            machine == uname[1].machine
            darwin == StartsWith(sysname, "Darwin")
            linux == StartsWith(sysname, "Linux")
            arm == machine = "arm64" \/ machine = "aarch64"
            x86 == machine = "x86_64"
        IN  /\ (darwin /\ (arm \/ x86)) => user_os = "MacOS"
            /\ (linux /\ (arm \/ x86)) => user_os = "Linux"
            /\ ((darwin \/ linux) /\ arm) => user_arch = "arm64"
            /\ ((darwin \/ linux) /\ x86) => user_arch = "x86_64"
            /\ (~darwin /\ ~linux) =>
                  /\ Exited /\ exit_status # <<0>>
                  /\ stdout[Len(stdout)] = "Unsupported OS: " \o sysname
                  /\ requests = <<>>
                  /\ user_os = None /\ user_arch = None
            /\ ((darwin \/ linux) /\ ~arm /\ ~x86) =>
                  /\ Exited /\ exit_status # <<0>>
                  /\ stdout[Len(stdout)] = "Unsupported Arch: " \o machine
                  /\ requests = <<>>
                  /\ user_os = None /\ user_arch = None

\* a Linux host reporting aarch64 was mapped to (Linux, arm64)
C6_Witness ==
    /\ uname = <<[sysname |-> "Linux", machine |-> "aarch64"]>>
    /\ user_os = "Linux"
    /\ user_arch = "arm64"
    /\ requests # <<>>

(***************************************************************************)
(* C7                                                                      *)
(***************************************************************************)
\* the command line gives --channel a value other than stable or beta
InvalidChannelGiven ==
    Len(argv) = 2 /\ argv[1] = "--channel" /\ argv[2] \notin {"stable", "beta"}

\* C7 (as stated): in every environment, linkup already on PATH included, a
\* run with an invalid --channel value prints the usage message and ends
\* with a non-zero status, never with 0.
C7_InvalidChannelAlwaysFatal ==
    (MainEntered /\ Exited /\ InvalidChannelGiven) =>
        exit_status # <<0>> /\ Contains(stdout, UsageLine)

\* C7 (amended): a run with an invalid --channel value prints the usage
\* message and ends with status 2, before any later stage, whenever linkup
\* is not already on PATH; when linkup is on PATH the run ends with status
\* 0 on the already-installed message, the arguments never being parsed.
C7_InvalidChannelFatalUnlessInstalled ==
    (MainEntered /\ InvalidChannelGiven) =>
        /\ (Exited /\ ~which_linkup) =>
              /\ exit_status = <<2>>
              /\ stdout = <<UsageLine>>
        /\ (Exited /\ which_linkup) =>
              /\ exit_status = <<0>>
              /\ stdout = <<MsgAlreadyInstalled>>
        /\ context = None /\ uname = <<>> /\ requests = <<>>
        /\ pc \in {"main", "parse_arguments", "exit"}

\* linkup is not installed and --channel nightly was refused with status 2
C7_Witness ==
    /\ argv = <<"--channel", "nightly">>
    /\ ~which_linkup
    /\ exit_status = <<2>>

(***************************************************************************)
(* C8                                                                      *)
(***************************************************************************)
\* dir is one of the colon-separated components of path
IsPathComponent(dir, path) ==
    \/ path = dir
    \/ StartsWith(path, dir \o ":")
    \/ EndsWith(path, ":" \o dir)
    \/ \E i \in 1..Len(path) :
          /\ i + Len(dir) + 1 <= Len(path)
          /\ SubSeq(path, i, i + Len(dir) + 1) = ":" \o dir \o ":"

\* the shell a SHELL value stands for: its file name, compared without case
ShellNamed(shell_entry) ==
    IF shell_entry \in {<<"/bin/bash">>} THEN "bash"
    ELSE IF shell_entry \in {<<"/usr/bin/zsh">>} THEN "zsh"
    ELSE IF shell_entry \in {<<"/bin/fish">>, <<"/bin/FISH">>} THEN "fish"
    ELSE None

ProfileLine(shell, dir) ==
    IF shell = "fish"
    THEN "echo 'set -gx PATH $PATH " \o dir \o "' >> " \o Home
            \o "/.config/fish/config.fish"
    ELSE "echo 'export PATH=$PATH:" \o dir \o "' >> " \o Home
            \o (IF shell = "bash" THEN "/.bashrc" ELSE "/.zshrc")

\* the lines printed after the "installed at" line, which setup_path follows
LinesOfSetupPath ==
    LET at == CHOOSE i \in DOMAIN stdout : stdout[i] = MsgInstalled(installation_bin_path)
    IN  SubSeq(stdout, at + 1, Len(stdout))

\* C8: setup_path prints nothing when the install directory is one of the
\* colon-separated components of PATH; otherwise it prints the add-to-PATH
\* instruction, followed by the profile command of the shell named by the
\* file name of SHELL (bash, zsh or fish, compared without case), and
\* nothing more when SHELL is unset or names no such shell.
C8_SetupPathOutput ==
    pc = "complete" =>
        LET dir == IF user_os = "MacOS" THEN Home \o "/.linkup/bin" ELSE "/usr/local/bin"
            path == IF env[1].PATH = <<>> THEN "" ELSE env[1].PATH[1]
            shell == ShellNamed(env[1].SHELL)
            lines == LinesOfSetupPath
        IN  IF IsPathComponent(dir, path) THEN lines = <<>>
            ELSE /\ lines # <<>>
                 /\ lines[1] = MsgAddToPath(dir)
                 /\ IF shell = None THEN Len(lines) = 1
                    ELSE /\ Len(lines) = 4
                         /\ lines[3] = ProfileLine(shell, dir)

\* SHELL=/bin/FISH on macOS with the install directory not on PATH: the fish
\* profile command was printed
C8_Witness ==
    /\ pc = "complete"
    /\ user_os = "MacOS"
    /\ env = <<[PATH |-> PathNeither, SHELL |-> <<"/bin/FISH">>]>>
    /\ Len(LinesOfSetupPath) = 4
    /\ LinesOfSetupPath[3] =
          "echo 'set -gx PATH $PATH /home/u/.linkup/bin' >> /home/u/.config/fish/config.fish"

(***************************************************************************)
(* C9                                                                      *)
(***************************************************************************)
IsPrefix(a, b) == Len(a) <= Len(b) /\ a = SubSeq(b, 1, Len(a))

ElevatedSteps == <<"mv", "chmod 755", "setcap cap_net_bind_service=+ep">>

InProcessSteps == <<"mkdir", "move", "chmod">>

InstalledPrinted ==
    user_os # None /\ Contains(stdout, MsgInstalled(installation_bin_path))

\* the install step is over: the finally block or anything after it runs
InstallStepOver == pc \in {"finally_tar", "finally_bin", "setup_path", "complete", "exit"}

\* C9: on Linux the elevated subprocesses are mv, chmod 755 and setcap, in
\* that order, each started only once the one before succeeded; a failure
\* of one aborts the run with a non-zero status, starts none of the later
\* ones and prints neither the installed nor the complete message.  On
\* macOS no elevated subprocess is started: mkdir, move and chmod 0755 are
\* done in-process.
C9_InstallSteps ==
    /\ user_os = "Linux" =>
          /\ IsPrefix(sudo_calls, ElevatedSteps)
          /\ local_calls = <<>>
          /\ Len(sudo_calls) >= 2 => "present" \in install_bin
          /\ Len(sudo_calls) >= 3 => "0755" \in install_bin
          /\ InstalledPrinted =>
                sudo_calls = ElevatedSteps /\ install_bin = {"present", "0755", "cap"}
          /\ (InstallStepOver /\ sudo_calls # <<>> /\ "cap" \notin install_bin) =>
                /\ Exited => exit_status # <<0>>
                /\ ~InstalledPrinted
                /\ ~Contains(stdout, MsgComplete)
                /\ pc \in {"finally_tar", "finally_bin", "exit"}
    /\ user_os # "Linux" =>
          /\ sudo_calls = <<>>
          /\ IsPrefix(local_calls, InProcessSteps)
          /\ InstalledPrinted =>
                local_calls = InProcessSteps /\ install_bin = {"present", "0755"}
          /\ install_bin # {} => Contains(local_calls, "move")

\* on Linux the elevated chmod failed after the elevated mv: no setcap was
\* started and the run ended with status 1
C9_Witness ==
    /\ user_os = "Linux"
    /\ sudo_calls = <<"mv", "chmod 755">>
    /\ install_bin = {"present"}
    /\ exit_status = <<1>>

\* C10: a run that ends with a non-zero status leaves no linkup binary of
\* its own in the install directory.
C10_NoPartialInstall ==
    (Exited /\ exit_status # <<0>>) => install_bin = {}

====
